---------------------------- MODULE Spec2Model ----------------------------
(***************************************************************************)
(* State-machine model of SlideShow (slide.py): the directory scan and     *)
(* shuffle of get_images, the timer-driven loop of start_slideshow, the    *)
(* per-image pipeline of show_image and the pure conversion of             *)
(* get_image_coords.                                                       *)
(*                                                                         *)
(* Conventions.  A Python value that may be None (or a missing dict key)   *)
(* is the empty tuple <<>> when absent and the one-element tuple <<v>>     *)
(* when present.  Angles are exact multiples of 1/3600 degree (the unit    *)
(* of one DMS second), altitudes are given in half metres.                 *)
(***************************************************************************)
EXTENDS Integers, Sequences, FiniteSets

VARIABLES
    directory,      \* the files found by os.walk: a set of <<id, extension>>
    image_list,     \* self.image_list
    current_id,     \* self.current_id
    current_image,  \* self.current_image: <<>> or <<path of the photo held>>
    canvas,         \* the items on self.canvas, in creation order
    timers,         \* the callbacks registered by self.after, as delays in ms
    pc,             \* position of the single thread of control
    caller,         \* who called the running start_slideshow: "main" or "after"
    delay,          \* start_slideshow's parameter `delay` in the running call
    image,          \* start_slideshow's local `image` / show_image's filepath
    image_data,     \* show_image's local image_data
    image_date,     \* show_image's local image_date
    image_coords,   \* show_image's local image_coords
    image_alt,      \* show_image's local image_alt
    image_loc,      \* show_image's local image_loc
    calls,          \* the helper functions invoked so far in the running tick
    error,          \* the exception that ended the last call and the step it left
    shown,          \* the paths displayed so far, one per completed show_image
    frame0          \* cursor and frame as they were when the running tick began

vars == << directory, image_list, current_id, current_image, canvas, timers,
           pc, caller, delay, image, image_data, image_date, image_coords,
           image_alt, image_loc, calls, error, shown, frame0 >>

----------------------------------------------------------------------------
(* Bounds of the model *)

MaxFiles == 3       \* files in the scanned directory
MaxTicks == 6       \* ticks followed before the model stops the timer
MaxDeg == 1         \* largest degrees value of a DMS triple
MaxMin == 1         \* largest minutes value of a DMS triple
MaxSec == 1         \* largest seconds value of a DMS triple
MaxAlt2 == 3        \* largest altitude, in half metres

(* Program constants *)

MainDelay == 2      \* slideShow.start_slideshow(delay=2)
DefaultDelay == 4   \* def start_slideshow(self, delay: int = 4)
ScreenW == 1920     \* self.winfo_screenwidth()
ScreenH == 1080     \* self.winfo_screenheight()

None == <<>>
Some(v) == <<v>>

----------------------------------------------------------------------------
(* get_images: directory scan, extension filter, shuffle *)

Exts == {"JPG", "txt"}

lower(e) == IF e = "JPG" THEN "jpg" ELSE e

ImageExts == {"jpg", "jpeg", "png", "gif"}

Directories ==
    { d \in SUBSET ((1..MaxFiles) \X Exts) :
        \A f \in d : \A g \in d : f[1] = g[1] => f = g }

\* the files of d that pass the extension test of line 37
ImagePaths(d) == { f \in d : lower(f[2]) \in ImageExts }

\* a list of as many draws from S, with repetition
shuffle_choices(S) == [1..Cardinality(S) -> S]

\* every order random.shuffle may leave a list of the elements of S in
shuffle(S) ==
    { s \in [1..Cardinality(S) -> S] :
        \A i \in DOMAIN s : \A j \in DOMAIN s : i # j => s[i] # s[j] }

get_images(d) == shuffle(ImagePaths(d))


----------------------------------------------------------------------------
(* get_image_date: strptime("%Y:%m:%d %H:%M:%S") then                     *)
(* strftime("%d/%m/%Y %H:%M:%S").  A date string is kept as its fields    *)
(* and the separator found between its date fields.                        *)

RawDates ==
    { [sep |-> c, Y |-> 2021, M |-> 5, D |-> 10, h |-> 14, m |-> 30, s |-> 0] :
        c \in {":", "-"} }

\* datetime.fromtimestamp(os.stat(image_path).st_mtime) of the file `path`
FileMTime(path) ==
    [sep |-> "mtime", Y |-> 2020, M |-> 1, D |-> path[1], h |-> 0, m |-> 0, s |-> 0]

strftime(d) == << d.D, "/", d.M, "/", d.Y, " ", d.h, ":", d.m, ":", d.s >>

\* image_date is None (<<>>) or Some(raw date string)
get_image_date(image_path, raw) ==
    IF raw # None
    THEN IF raw[1].sep = ":"
         THEN [err |-> "None", val |-> strftime(raw[1])]
         ELSE [err |-> "ValueError", val |-> <<>>]
    ELSE [err |-> "None", val |-> strftime(FileMTime(image_path))]

----------------------------------------------------------------------------
(* get_image_coords *)

DMS == (0..MaxDeg) \X (0..MaxMin) \X (0..MaxSec)

Opt(S) == {None} \cup { Some(v) : v \in S }

\* a GPSInfo dictionary: each known tag absent or present, and whether the
\* dictionary holds a key that is not in ExifTags.GPSTAGS
GpsInfos ==
    [ GPSLatitudeRef : Opt({"N", "S"}), GPSLatitude : Opt(DMS),
      GPSLongitudeRef : Opt({"E", "W"}), GPSLongitude : Opt(DMS),
      GPSAltitude : Opt(0..MaxAlt2), Other : BOOLEAN ]

GpsTags ==
    {"GPSLatitudeRef", "GPSLatitude", "GPSLongitudeRef", "GPSLongitude", "GPSAltitude"}

\* the lambda of line 80, in units of 1/3600 degree
dms_to_decimal(dms) == 3600 * dms[1] + 60 * dms[2] + dms[3]

\* Python's round() of a2/2 for a2 >= 0: to nearest, ties to even
round(a2) ==
    IF a2 % 2 = 0 THEN a2 \div 2
    ELSE IF ((a2 - 1) \div 2) % 2 = 0 THEN (a2 - 1) \div 2 ELSE (a2 + 1) \div 2

\* truth value of the dictionary gps_info (line 115): it has some key
gps_truthy(g) == g.Other \/ \E t \in GpsTags : g[t] # None

get_image_coords_swapped(gps_info) ==
    IF \E t \in GpsTags : gps_info[t] # None
    THEN IF \/ gps_info.GPSLatitude = None
            \/ gps_info.GPSLongitude = None
            \/ gps_info.GPSAltitude = None
         THEN [err |-> "TypeError", val |-> <<>>]
         ELSE LET lat == dms_to_decimal(gps_info.GPSLatitude[1])
                  lon == dms_to_decimal(gps_info.GPSLongitude[1])
                  alt == round(gps_info.GPSAltitude[1])
              IN  [err |-> "None",
                   val |-> << IF gps_info.GPSLongitudeRef # Some("E") THEN -lat ELSE lat,
                              IF gps_info.GPSLatitudeRef # Some("N") THEN -lon ELSE lon,
                              alt >>]
    ELSE [err |-> "UnboundLocalError", val |-> <<>>]

get_image_coords(gps_info) ==
    \* coords_data keeps the keys of gps_info that are in ExifTags.GPSTAGS
    IF \E t \in GpsTags : gps_info[t] # None
    THEN IF \/ gps_info.GPSLatitude = None
            \/ gps_info.GPSLongitude = None
            \/ gps_info.GPSAltitude = None
         THEN [err |-> "TypeError", val |-> <<>>]
         ELSE LET lat == dms_to_decimal(gps_info.GPSLatitude[1])
                  lon == dms_to_decimal(gps_info.GPSLongitude[1])
                  alt == round(gps_info.GPSAltitude[1])
              IN  [err |-> "None",
                   val |-> << IF gps_info.GPSLatitudeRef # Some("N") THEN -lat ELSE lat,
                              IF gps_info.GPSLongitudeRef # Some("E") THEN -lon ELSE lon,
                              alt >>]
    ELSE [err |-> "UnboundLocalError", val |-> <<>>]

----------------------------------------------------------------------------
(* get_image_location: the reply of the geocoding service is an input *)

Places == { [name |-> "Louvre", locality |-> Some("Paris")],
            [name |-> "Louvre", locality |-> None] }

Responses ==
    {[status |-> "ConnectionError", data |-> None],
     [status |-> "Timeout", data |-> None],
     [status |-> "reply", data |-> None],             \* no "data" key
     [status |-> "reply", data |-> Some(<<>>)]}       \* "data": []
    \cup { [status |-> "reply", data |-> Some(<<p>>)] : p \in Places }

get_image_location(lat, lon, resp) ==
    IF resp.status # "reply" THEN [err |-> resp.status, val |-> <<>>]
    ELSE IF resp.data = None THEN [err |-> "KeyError", val |-> <<>>]
    ELSE IF Len(resp.data[1]) = 0 THEN [err |-> "IndexError", val |-> <<>>]
    ELSE IF resp.data[1][1].locality = None THEN [err |-> "TypeError", val |-> <<>>]
    ELSE [err |-> "None",
          val |-> << resp.data[1][1].name, ", ", resp.data[1][1].locality[1] >>]

----------------------------------------------------------------------------
(* The metadata an image file may carry (parse_image_data's result).  The *)
(* slideshow draws GPS blocks from a few representative dictionaries; the *)
(* whole of GpsInfos is covered by SpecCoords below.                       *)

NoGps == [GPSLatitudeRef |-> None, GPSLatitude |-> None, GPSLongitudeRef |-> None,
          GPSLongitude |-> None, GPSAltitude |-> None, Other |-> FALSE]

GpsSamples ==
    { NoGps,                                              \* "GPSInfo": {}
      [NoGps EXCEPT !.Other = TRUE],                      \* only unknown tags
      [NoGps EXCEPT !.GPSLatitudeRef = Some("N")],        \* reference, no angle
      [GPSLatitudeRef |-> Some("N"), GPSLatitude |-> Some(<<MaxDeg, MaxMin, MaxSec>>),
       GPSLongitudeRef |-> Some("E"), GPSLongitude |-> Some(<<0, MaxMin, 0>>),
       GPSAltitude |-> Some(MaxAlt2), Other |-> FALSE],
      [GPSLatitudeRef |-> Some("S"), GPSLatitude |-> Some(<<0, 0, MaxSec>>),
       GPSLongitudeRef |-> Some("W"), GPSLongitude |-> Some(<<MaxDeg, 0, 0>>),
       GPSAltitude |-> Some(0), Other |-> TRUE] }

ExifDatas ==
    [ DateTimeOriginal : Opt(RawDates), DateTime : Opt({ d \in RawDates : d.sep = ":" }),
      GPSInfo : Opt(GpsSamples) ]

NoExif == [DateTimeOriginal |-> None, DateTime |-> None, GPSInfo |-> None]

\* the text of line 122 (written here without its accent)
Placeholder == <<"Lieu non defini">>

\* image_data.get("GPSInfo") is truthy: the key is there and its dictionary
\* is not empty
has_gps_key(data) == data.GPSInfo # None

has_gps(data) == data.GPSInfo # None /\ gps_truthy(data.GPSInfo[1])

\* the distance of the location text from the bottom edge (line 133)
loc_dy(alt) == IF alt # None THEN 30 ELSE 10

\* the cursor after one tick (line 49)
next_id_nowrap(id, n) == id + 1

next_id(id, n) == (id + 1) % n

----------------------------------------------------------------------------
(* Initial state: the object as __init__ leaves it (lines 22-29), the     *)
(* main program about to call start_slideshow (line 144).                 *)

NoError == [type |-> "None", step |-> "None"]

NoLocals ==
    /\ image' = None
    /\ image_data' = None
    /\ image_date' = None
    /\ image_coords' = None
    /\ image_alt' = None
    /\ image_loc' = None

KeepLocals == UNCHANGED << image, image_data, image_date, image_coords, image_alt, image_loc >>

Init ==
    /\ directory \in Directories
    /\ image_list \in get_images(directory)
    /\ current_id = 0
    /\ current_image = None
    /\ canvas = << >>
    /\ timers = << >>
    /\ pc = "main"
    /\ caller = "None"
    /\ delay = 0
    /\ image = None
    /\ image_data = None
    /\ image_date = None
    /\ image_coords = None
    /\ image_alt = None
    /\ image_loc = None
    /\ calls = {}
    /\ error = NoError
    /\ shown = << >>
    /\ frame0 = [current_id |-> 0, current_image |-> None, canvas |-> << >>]

\* An exception leaves show_image and start_slideshow: no handler catches it.
\* Raised under the call of line 144 it ends the program before mainloop;
\* raised in a timer callback Tk reports it and the event loop goes on.
Raise(exc) ==
    /\ error' = [type |-> exc, step |-> pc]
    /\ pc' = IF caller = "main" THEN "exited" ELSE "mainloop"
    /\ caller' = "None"
    /\ delay' = 0
    /\ NoLocals

\* line 144: slideShow.start_slideshow(delay=2)
StartMain ==
    /\ pc = "main"
    /\ pc' = "select"
    /\ caller' = "main"
    /\ delay' = MainDelay
    /\ calls' = {}
    /\ frame0' = [current_id |-> current_id, current_image |-> current_image,
                  canvas |-> canvas]
    /\ UNCHANGED << directory, image_list, current_id, current_image, canvas,
                    timers, error, shown >>
    /\ KeepLocals

\* mainloop runs a due timer: self.start_slideshow() with no argument, so
\* delay takes its default
TimerFire ==
    /\ pc = "mainloop"
    /\ timers # << >>
    /\ Len(shown) < MaxTicks
    /\ timers' = Tail(timers)
    /\ pc' = "select"
    /\ caller' = "after"
    /\ delay' = DefaultDelay
    /\ calls' = {}
    /\ error' = NoError
    /\ frame0' = [current_id |-> current_id, current_image |-> current_image,
                  canvas |-> canvas]
    /\ UNCHANGED << directory, image_list, current_id, current_image, canvas, shown >>
    /\ KeepLocals

\* lines 47-49
Select_random ==
    /\ pc = "select"
    /\ IF current_id >= Len(image_list)
       THEN /\ Raise("IndexError")
            /\ UNCHANGED current_id
       ELSE /\ \E k \in 1..Len(image_list) : image' = Some(image_list[k])
            /\ current_id' = next_id(current_id, Len(image_list))
            /\ pc' = "open"
            /\ UNCHANGED << caller, delay, error, image_data, image_date,
                            image_coords, image_alt, image_loc >>
    /\ UNCHANGED << directory, image_list, current_image, canvas, timers, calls,
                    shown, frame0 >>

Select_loop ==
    /\ pc = "select"
    /\ IF current_id >= Len(image_list)
       THEN /\ timers' = Append(timers, delay * 1000)
            /\ pc' = "mainloop"
            /\ caller' = "None"
            /\ delay' = 0
            /\ NoLocals
            /\ UNCHANGED << current_id, error >>
       ELSE /\ image' = Some(image_list[current_id + 1])
            /\ current_id' = next_id(current_id, Len(image_list))
            /\ pc' = "open"
            /\ UNCHANGED << caller, delay, error, image_data, image_date,
                            image_coords, image_alt, image_loc, timers >>
    /\ UNCHANGED << directory, image_list, current_image, canvas, calls,
                    shown, frame0 >>

Select ==
    /\ pc = "select"
    /\ IF current_id >= Len(image_list)
       THEN /\ Raise("IndexError")
            /\ UNCHANGED current_id
       ELSE /\ image' = Some(image_list[current_id + 1])
            /\ current_id' = next_id(current_id, Len(image_list))
            /\ pc' = "open"
            /\ UNCHANGED << caller, delay, error, image_data, image_date,
                            image_coords, image_alt, image_loc >>
    /\ UNCHANGED << directory, image_list, current_image, canvas, timers, calls,
                    shown, frame0 >>

\* line 110: Image.open(filepath)
ShowOpen_clear ==
    /\ pc = "open"
    /\ canvas' = << >>
    /\ \E ok \in BOOLEAN :
        IF ok
        THEN /\ pc' = "metadata"
             /\ UNCHANGED << caller, delay, error >>
             /\ KeepLocals
        ELSE Raise("UnidentifiedImageError")
    /\ UNCHANGED << directory, image_list, current_id, current_image, timers,
                    calls, shown, frame0 >>

ShowOpen ==
    /\ pc = "open"
    /\ \E ok \in BOOLEAN :
        IF ok
        THEN /\ pc' = "metadata"
             /\ UNCHANGED << caller, delay, error >>
             /\ KeepLocals
        ELSE Raise("UnidentifiedImageError")
    /\ UNCHANGED << directory, image_list, current_id, current_image, canvas,
                    timers, calls, shown, frame0 >>

\* lines 112-114: parse_image_data, then get_image_date on DateTimeOriginal,
\* or on DateTime when the former is missing
ShowMetadata ==
    /\ pc = "metadata"
    /\ \/ Raise("AttributeError")      \* image_obj._getexif() fails (line 57)
       \/ \E d \in ExifDatas :
            LET raw == IF d.DateTimeOriginal # None THEN d.DateTimeOriginal
                       ELSE d.DateTime
                r == get_image_date(image[1], raw)
            IN  IF r.err # "None" THEN Raise(r.err)
                ELSE /\ image_data' = Some(d)
                     /\ image_date' = Some(r.val)
                     /\ pc' = "location"
                     /\ UNCHANGED << caller, delay, error, image, image_coords,
                                     image_alt, image_loc >>
    /\ UNCHANGED << directory, image_list, current_id, current_image, canvas,
                    timers, calls, shown, frame0 >>

\* lines 115-122
ShowLocation ==
    /\ pc = "location"
    /\ IF has_gps(image_data[1])
       THEN LET c == get_image_coords(image_data[1].GPSInfo[1])
            IN  IF c.err # "None"
                THEN /\ Raise(c.err)
                     /\ calls' = calls \cup {"get_image_coords"}
                ELSE \E resp \in Responses :
                       LET l == get_image_location(c.val[1], c.val[2], resp)
                       IN  /\ calls' = calls \cup {"get_image_coords",
                                                   "get_image_location"}
                           /\ IF l.err # "None" THEN Raise(l.err)
                              ELSE /\ image_coords' = Some(c.val)
                                   /\ image_alt' = Some(c.val[3])
                                   /\ image_loc' = Some(l.val)
                                   /\ pc' = "draw"
                                   /\ UNCHANGED << caller, delay, error, image,
                                                   image_data, image_date >>
       ELSE /\ image_coords' = Some(<<0, 0, 0>>)
            /\ image_alt' = None
            /\ image_loc' = Some(Placeholder)
            /\ pc' = "draw"
            /\ UNCHANGED << caller, delay, error, image, image_data, image_date, calls >>
    /\ UNCHANGED << directory, image_list, current_id, current_image, canvas,
                    timers, shown, frame0 >>

\* the five canvas items of lines 128-136
Items(img, date, loc, alt) ==
    << [item |-> "image", x |-> ScreenW \div 2, y |-> ScreenH \div 2,
        anchor |-> "center", content |-> img],
       [item |-> "text", x |-> 20, y |-> 10, anchor |-> "nw", content |-> date],
       [item |-> "text", x |-> 20, y |-> ScreenH - loc_dy(alt), anchor |-> "sw",
        content |-> loc],
       [item |-> "text", x |-> 20, y |-> ScreenH - 10, anchor |-> "sw",
        content |-> alt],
       [item |-> "text", x |-> ScreenW - 20, y |-> ScreenH - 10, anchor |-> "se",
        content |-> img] >>

\* lines 124-136: thumbnail loads and scales the pixels, then the canvas is
\* cleared and redrawn
ShowDraw ==
    /\ pc = "draw"
    /\ \E ok \in BOOLEAN :
        IF ok
        THEN /\ current_image' = image
             /\ canvas' = Items(image[1], image_date[1], image_loc[1], image_alt)
             /\ shown' = Append(shown, image[1])
             /\ pc' = "schedule"
             /\ UNCHANGED << caller, delay, error >>
             /\ KeepLocals
        ELSE /\ Raise("OSError")
             /\ UNCHANGED << current_image, canvas, shown >>
    /\ UNCHANGED << directory, image_list, current_id, timers, calls, frame0 >>

\* line 51: self.after(delay * 1000, self.start_slideshow), then return
Schedule_twice ==
    /\ pc = "schedule"
    /\ timers' = timers \o << delay * 1000, delay * 1000 >>
    /\ pc' = "mainloop"
    /\ caller' = "None"
    /\ delay' = 0
    /\ NoLocals
    /\ UNCHANGED << directory, image_list, current_id, current_image, canvas,
                    calls, error, shown, frame0 >>

Schedule ==
    /\ pc = "schedule"
    /\ timers' = Append(timers, delay * 1000)
    /\ pc' = "mainloop"
    /\ caller' = "None"
    /\ delay' = 0
    /\ NoLocals
    /\ UNCHANGED << directory, image_list, current_id, current_image, canvas,
                    calls, error, shown, frame0 >>

Next ==
    \/ StartMain
    \/ TimerFire
    \/ Select
    \/ ShowOpen
    \/ ShowMetadata
    \/ ShowLocation
    \/ ShowDraw
    \/ Schedule

Spec == Init /\ [][Next]_vars

----------------------------------------------------------------------------
(* get_image_coords on its own: every GPS dictionary of GpsInfos is       *)
(* converted once.                                                         *)

InitCoords ==
    /\ directory = {}
    /\ image_list = << >>
    /\ current_id = 0
    /\ current_image = None
    /\ canvas = << >>
    /\ timers = << >>
    /\ pc = "coords"
    /\ caller = "None"
    /\ delay = 0
    /\ image = None
    /\ \E g \in GpsInfos : image_data = Some([NoExif EXCEPT !.GPSInfo = Some(g)])
    /\ image_date = None
    /\ image_coords = None
    /\ image_alt = None
    /\ image_loc = None
    /\ calls = {}
    /\ error = NoError
    /\ shown = << >>
    /\ frame0 = [current_id |-> 0, current_image |-> None, canvas |-> << >>]

Convert ==
    /\ pc = "coords"
    /\ LET c == get_image_coords(image_data[1].GPSInfo[1])
       IN  /\ image_coords' = IF c.err = "None" THEN Some(c.val) ELSE None
           /\ error' = IF c.err = "None" THEN NoError
                       ELSE [type |-> c.err, step |-> pc]
    /\ calls' = {"get_image_coords"}
    /\ pc' = "coords_done"
    /\ UNCHANGED << directory, image_list, current_id, current_image, canvas,
                    timers, caller, delay, image, image_data, image_date,
                    image_alt, image_loc, shown, frame0 >>

NextCoords == Convert

SpecCoords == InitCoords /\ [][NextCoords]_vars

----------------------------------------------------------------------------
(* Properties *)

TickSteps == {"select", "open", "metadata", "location", "draw", "schedule"}
ShowSteps == {"open", "metadata", "location", "draw"}

\* C1: once get_images has built a non-empty list, the ticks show every
\* discovered path exactly once before any path is shown again: each block of
\* n = Len(image_list) consecutive displays that starts at a cycle boundary holds
\* pairwise distinct paths, a complete block covers the whole discovered set,
\* and every display after the first n is a repeat of an earlier one.
C1_CycleComplete ==
    LET n == Len(image_list)
    IN  n > 0 =>
          /\ \A i \in 1..Len(shown) : \A j \in 1..Len(shown) :
                (i < j /\ (i - 1) \div n = (j - 1) \div n) => shown[i] # shown[j]
          /\ \A k \in 0..(Len(shown) \div n) :
                (k + 1) * n <= Len(shown) =>
                    { shown[k * n + i] : i \in 1..n } = ImagePaths(directory)
          /\ \A i \in 1..Len(shown) :
                i > n => \E j \in 1..(i - 1) : shown[j] = shown[i]

C1_Witness ==
    /\ Len(image_list) = 3
    /\ Len(shown) = 4
    /\ shown[4] = shown[1]

\* C2: a tick that fails in a per-image step (decoding, EXIF date, GPS
\* conversion, geocoding) does not halt the loop: when the failed call has
\* ended, the event loop is running and the next tick is scheduled.
C2_FailureKeepsLoop ==
    (error.step \in ShowSteps /\ pc \notin TickSteps) =>
        (pc = "mainloop" /\ Len(timers) = 1)

\* C3: every tick is scheduled with the delay the first call of
\* start_slideshow was given.
C3_FixedDelay ==
    \A i \in 1..Len(timers) : timers[i] = MainDelay * 1000

\* C4: when the scan discovers no image, starting the slideshow ends in an
\* error at startup and does not loop: the program goes from the call to the
\* IndexError and exit, no frame is displayed, the cursor stays 0 and no tick
\* is scheduled.
C4_EmptyFailsCleanly ==
    ImagePaths(directory) = {} =>
        /\ pc \in {"main", "select", "exited"}
        /\ pc = "exited" => error = [type |-> "IndexError", step |-> "select"]
        /\ canvas = << >>
        /\ current_image = None
        /\ shown = << >>
        /\ current_id = 0
        /\ timers = << >>

C4_Witness ==
    /\ ImagePaths(directory) = {}
    /\ directory # {}
    /\ pc = "exited"

\* an image without GPS block: no GPSInfo key, or an empty GPSInfo dictionary
NoGpsBlock(data) == data.GPSInfo = None \/ data.GPSInfo = Some(NoGps)

\* C5: in a tick whose image has no GPS block the location step invokes
\* neither the conversion nor the geocoding lookup, sets the placeholder as
\* location text and no altitude text; and on every drawn canvas the location
\* text is raised (30 from the bottom instead of 10) exactly when an altitude
\* text is present.
C5_NoGpsNoLookup ==
    /\ [][(pc = "location" /\ NoGpsBlock(image_data[1])) =>
            /\ pc' = "draw"
            /\ calls' = calls
            /\ image_loc' = Some(Placeholder)
            /\ image_alt' = None]_vars
    /\ [](pc \in {"draw", "schedule"} /\ NoGpsBlock(image_data[1]) =>
            /\ "get_image_coords" \notin calls
            /\ "get_image_location" \notin calls)
    /\ [](canvas # << >> =>
            /\ canvas[4].content # None => canvas[3].y = ScreenH - 30
            /\ canvas[4].content = None => canvas[3].y = ScreenH - 10)

C5_Witness ==
    /\ pc = "schedule"
    /\ image_data[1].GPSInfo = Some(NoGps)
    /\ canvas[3].content = Placeholder
    /\ canvas[3].y = ScreenH - 10
    /\ canvas[4].content = None
    /\ calls = {}

\* C6: the list built at startup holds every discovered path exactly once,
\* no step changes it, and every cycle replays the order of the first.
C6_SequenceFixed ==
    /\ [](/\ Len(image_list) = Cardinality(ImagePaths(directory))
          /\ { image_list[i] : i \in 1..Len(image_list) } = ImagePaths(directory)
          /\ \A i \in 1..Len(shown) :
                i > Len(image_list) => shown[i] = shown[i - Len(image_list)])
    /\ [][image_list' = image_list]_vars

C6_Witness ==
    /\ Len(image_list) = 3
    /\ Len(shown) = 5
    /\ shown[5] = shown[2]
    /\ shown[5] = image_list[2]

\* C7: one timer drives the slideshow: at most one scheduled tick is pending,
\* none is pending while a tick executes (so no tick can begin during
\* another), and a tick that completed has scheduled exactly one successor.
C7_OneTimer ==
    /\ Len(timers) <= 1
    /\ pc \in TickSteps => timers = << >>
    /\ (pc = "mainloop" /\ error = NoError) => Len(timers) = 1

C7_Witness ==
    /\ pc = "mainloop"
    /\ Len(shown) = 2
    /\ Len(timers) = 1

\* C8: for a non-empty list the cursor stays within 0 .. Len(image_list)-1,
\* the selection step of each tick advances it by one modulo the length, and
\* no other step changes it.
C8_CursorInRange ==
    /\ [](image_list # << >> => (0 <= current_id /\ current_id < Len(image_list)))
    /\ [][(pc = "select" /\ image_list # << >>) =>
            current_id' = IF current_id = Len(image_list) - 1 THEN 0
                          ELSE current_id + 1]_vars
    /\ [][pc # "select" => current_id' = current_id]_vars

C8_Witness ==
    /\ Len(image_list) = 3
    /\ Len(shown) = 3
    /\ current_id = 0

\* C9: when get_image_coords returns, the latitude is the DMS magnitude
\* degrees + minutes/60 + seconds/3600 (here in 1/3600 degree), negated
\* exactly when the latitude reference is not "N"; the longitude likewise
\* with "E"; each correction depends on its own reference only.
C9_SignCorrection ==
    (pc = "coords_done" /\ error = NoError) =>
        LET g == image_data[1].GPSInfo[1]
            la == g.GPSLatitude[1]
            lo == g.GPSLongitude[1]
            latmag == la[1] * 3600 + la[2] * 60 + la[3]
            lonmag == lo[1] * 3600 + lo[2] * 60 + lo[3]
            lat == image_coords[1][1]
            lon == image_coords[1][2]
        IN  /\ g.GPSLatitudeRef = Some("N") => lat = latmag
            /\ g.GPSLatitudeRef # Some("N") => lat = 0 - latmag
            /\ g.GPSLongitudeRef = Some("E") => lon = lonmag
            /\ g.GPSLongitudeRef # Some("E") => lon = 0 - lonmag
            /\ g.GPSLatitudeRef = Some("S") => lat <= 0
            /\ g.GPSLatitudeRef = Some("N") => lat >= 0

C9_Witness ==
    /\ pc = "coords_done"
    /\ error = NoError
    /\ image_data[1].GPSInfo[1].GPSLatitudeRef = Some("S")
    /\ image_data[1].GPSInfo[1].GPSLongitudeRef = Some("E")
    /\ image_coords[1][1] = 0 - (3600 * MaxDeg + 60 * MaxMin + MaxSec)
    /\ image_coords[1][2] = 60 * MaxMin

\* C10: during show_image, and after show_image failed in decoding, metadata
\* extraction or location resolution, the cursor has already moved past the
\* image of the tick while current_image and the canvas are still those of
\* the previous frame.
C10_FailureKeepsFrame ==
    (pc \in ShowSteps \/ error.step \in ShowSteps) =>
        /\ current_id = (frame0.current_id + 1) % Len(image_list)
        /\ current_image = frame0.current_image
        /\ canvas = frame0.canvas

C10_Witness ==
    /\ error.step = "location"
    /\ pc = "mainloop"
    /\ canvas # << >>
    /\ Len(image_list) = 2
    /\ current_id # frame0.current_id
    /\ current_image = Some(image_list[frame0.current_id])

=============================================================================
